---- MODULE Spec2Model ----
(***************************************************************************)
(* Permissions Tracker PWA: the Hijri month resolution of                  *)
(* src/unnamed/part_000 (toHijri, findHijriMonthStart, findHijriMonthEnd,  *)
(* calculateWorkdays, getHijriMonthLength) and the application around it   *)
(* (loadState, resetState, saveState, renderHome, usePermission, init);    *)
(* the variant src/script.js (getHijriDate, the month range and workdays,  *)
(* loadData, checkAndResetMonth, logPermission, the confirmation dialog,   *)
(* initApp); and the install, activate and fetch handlers of               *)
(* src/service-worker.js.                                                  *)
(*                                                                         *)
(* A Date is modelled by its local calendar day number (days since the     *)
(* epoch).  Every Date the program derives from one `new Date()` keeps     *)
(* that reading's time of day (setDate changes the day only), so the       *)
(* comparisons and differences of the code are those of the day numbers.   *)
(***************************************************************************)
EXTENDS Integers, Sequences, FiniteSets, TLC

VARIABLES
    lens,            \* oracle: the lengths of the months of the calendar table
    mode,            \* oracle: "ok", "stuck" (the last table month never ends) or "unavailable"
    tableStart,      \* oracle: the day number on which the first table month begins
    now,             \* the wall clock: the day number `new Date()` reads
    storage,         \* localStorage item 'permissionsData'
    state,           \* the application state object
    monthStartDate,  \* cached start of the current Hijri month
    monthEndDate,    \* cached end of the current Hijri month
    pc,              \* "unloaded", "ready" (init returned) or "hung" (init never returns)
    error,           \* the error init surfaced to its caller ("none" when it surfaced none)
    home,            \* what renderHome last wrote to the home screen
    rendered,        \* TRUE when the last step rendered the home screen
    raced,           \* TRUE when midnight passed between init's two readings of the clock
    budget,          \* how many more clock ticks and confirmed uses the run explores
    call,            \* the last application of a function under test
    pattern,         \* oracle: the en-US date pattern of the engine's locale data
    spc,             \* script.js: "unloaded", "ready" (listeners live) or "hung"
    permissionsUsed,           \* script.js: the usage counter
    historyLog,                \* script.js: the logged permissions
    currentHijriMonthAndYear,  \* script.js: the month the counter belongs to
    pendingPermissionType,     \* script.js: the type the dialog asks about
    workPermissionsData,       \* localStorage item 'workPermissionsData'
    disabled,        \* script.js: TRUE when the two use buttons are disabled
    worker,          \* service worker: "parsed", "installed", "redundant" or "activated"
    caches,          \* service worker: the origin's CacheStorage, name -> set of URLs
    network,         \* service worker: the URLs a fetch can retrieve
    response         \* service worker: what the last fetch event was answered with

scriptVars == <<spc, permissionsUsed, historyLog, currentHijriMonthAndYear,
                pendingPermissionType, workPermissionsData, disabled>>

workerVars == <<worker, caches, network, response>>

pageVars == <<storage, state, monthStartDate, monthEndDate, pc, error, rendered, raced>>

vars == <<lens, mode, tableStart, now, storage, state, monthStartDate,
          monthEndDate, pc, error, home, rendered, raced, budget, call,
          pattern, scriptVars, workerVars>>

----------------------------------------------------------------------------
(* Bounds of the model *)

NMonths == 2
MaxProbes == 40
MaxTicks == 1
MaxUses == 1
MaxQuotaUses == 12
MaxLogs == 3
FirstYear == 1447
FirstMonth == 12

(* the value of a variable that was declared and never assigned *)
Undef == 0 - 1
(* null: no Date, no stored item *)
Null == 0 - 2

TOTAL_PERMISSIONS == 10

MAX_PERMISSIONS == 10

(* Number() of a string that is not a numeral; NaN === x is false for every x *)
NaN == 0 - 3

----------------------------------------------------------------------------
(* The Umm al-Qura oracle behind Intl.DateTimeFormat: consecutive months,  *)
(* each a run of days numbered from 1.  The months of the table have the   *)
(* lengths in the oracle's list; the months before and after the table     *)
(* have 30 days.  A "stuck" oracle never leaves the last month of its      *)
(* table; an "unavailable" one yields no day, month or year at all.        *)

Modes == {"ok", "stuck", "unavailable"}
Oracles == [1..NMonths -> {29, 30}]
TableStarts == 0..6
Days == (0 - (MaxProbes + 2)) .. (6 + 30 * NMonths + MaxTicks + MaxProbes + 2)

MonthLen(l, i) == IF i \in DOMAIN l THEN l[i] ELSE 30

RECURSIVE MonthOf(_, _, _, _, _)
MonthOf(m, l, d, i, start) ==
    IF m = "stuck" /\ i >= Len(l) THEN [index |-> i, start |-> start]
    ELSE IF d < start + MonthLen(l, i) THEN [index |-> i, start |-> start]
    ELSE MonthOf(m, l, d, i + 1, start + MonthLen(l, i))

OracleDate(m, ts, l, d) ==
    IF d < ts
    THEN LET back == ts - 1 - d
             idx0 == 12 * FirstYear + (FirstMonth - 1) - 1 - (back \div 30)
         IN  [year |-> idx0 \div 12, month |-> (idx0 % 12) + 1,
              day |-> 30 - (back % 30)]
    ELSE LET mo   == MonthOf(m, l, d, 1, ts)
             idx0 == 12 * FirstYear + (FirstMonth - 1) + (mo.index - 1)
         IN  [year |-> idx0 \div 12, month |-> (idx0 % 12) + 1,
              day |-> d - mo.start + 1]

(* a number as the formatter prints it: its decimal digits *)
RECURSIVE Digits(_)
Digits(n) == IF n < 10 THEN <<n>> ELSE Append(Digits(n \div 10), n % 10)

RECURSIVE parseInt(_)
parseInt(s) ==
    IF s = <<>> THEN Undef
    ELSE IF Len(s) = 1 THEN s[1]
    ELSE 10 * parseInt(SubSeq(s, 1, Len(s) - 1)) + s[Len(s)]

(* hijriFormatter.formatToParts(date) under oracle (m, ts, l) *)
hijriFormatter(m, ts, l, date) ==
    IF m = "unavailable"
    THEN << [type |-> "literal", value |-> <<>>] >>
    ELSE LET h == OracleDate(m, ts, l, date)
         IN  << [type |-> "month",   value |-> Digits(h.month)],
                [type |-> "literal", value |-> <<>>],
                [type |-> "day",     value |-> Digits(h.day)],
                [type |-> "literal", value |-> <<>>],
                [type |-> "year",    value |-> Digits(h.year)],
                [type |-> "literal", value |-> <<>>],
                [type |-> "era",     value |-> <<>>] >>

(* the body of toHijri: the last part of each type, parsed *)
HijriOfParts(parts) ==
    LET Part(t) == LET at == {i \in DOMAIN parts : parts[i].type = t}
                   IN  IF at = {} THEN Undef
                       ELSE parseInt(parts[CHOOSE i \in at : \A j \in at : j <= i].value)
    IN  [year |-> Part("year"), month |-> Part("month"), day |-> Part("day")]

(* every conversion the model can ask for, computed once *)
Conversions ==
    [m \in Modes |->
      [ts \in TableStarts |->
        [l \in Oracles |->
          [d \in Days |-> HijriOfParts(hijriFormatter(m, ts, l, d))]
            @@ [x \in {} |-> x]]
          @@ [x \in {} |-> x]]
        @@ [x \in {} |-> x]]
      @@ [x \in {} |-> x]

(* takes the first number of the en-locale "M/D/Y" for the day *)
toHijri_SwapsDayAndMonth(date) ==
    LET h == Conversions[mode][tableStart][lens][date]
    IN  [year |-> h.year, month |-> h.day, day |-> h.month]

toHijri(date) == Conversions[mode][tableStart][lens][date]

(* Date.getDay(): day 0 of the epoch is a Thursday *)
getDay(date) == (date + 4) % 7

----------------------------------------------------------------------------
(* The month boundary searches.  Each returns the Date it found, the       *)
(* number of loop iterations it made and whether it returned at all: a     *)
(* search still running after MaxProbes iterations is followed no further. *)

RECURSIVE StartLoop_StopsAtDay2(_, _)
StartLoop_StopsAtDay2(date, iters) ==
    IF toHijri(date).day > 2
    THEN IF iters >= MaxProbes
         THEN [date |-> date, iters |-> iters, returned |-> FALSE]
         ELSE StartLoop_StopsAtDay2(date - 1, iters + 1)
    ELSE [date |-> date, iters |-> iters, returned |-> TRUE]

findHijriMonthStart_StopsAtDay2(gregDate) == StartLoop_StopsAtDay2(gregDate, 0)

RECURSIVE StartLoop(_, _)
StartLoop(date, iters) ==
    IF toHijri(date).day > 1
    THEN IF iters >= MaxProbes
         THEN [date |-> date, iters |-> iters, returned |-> FALSE]
         ELSE StartLoop(date - 1, iters + 1)
    ELSE [date |-> date, iters |-> iters, returned |-> TRUE]

(* a do-while: steps back once before it looks at the day *)
findHijriMonthStart_StepsFirst(gregDate) == StartLoop(gregDate - 1, 1)

findHijriMonthStart(gregDate) == StartLoop(gregDate, 0)

RECURSIVE EndLoop(_, _, _, _)
EndLoop(date, hijriYear, hijriMonth, probes) ==
    IF probes >= MaxProbes
    THEN [date |-> date, iters |-> probes, returned |-> FALSE]
    ELSE LET nextDay == date + 1
             hijri   == toHijri(nextDay)
         IN  IF hijri.year # hijriYear \/ hijri.month # hijriMonth
             THEN [date |-> date, iters |-> probes + 1, returned |-> TRUE]
             ELSE EndLoop(nextDay, hijriYear, hijriMonth, probes + 1)

(* leaves the loop only when year and month both differ *)
RECURSIVE EndLoop_NeedsBothToDiffer(_, _, _, _)
EndLoop_NeedsBothToDiffer(date, hijriYear, hijriMonth, probes) ==
    IF probes >= MaxProbes
    THEN [date |-> date, iters |-> probes, returned |-> FALSE]
    ELSE LET nextDay == date + 1
             hijri   == toHijri(nextDay)
         IN  IF hijri.year # hijriYear /\ hijri.month # hijriMonth
             THEN [date |-> date, iters |-> probes + 1, returned |-> TRUE]
             ELSE EndLoop_NeedsBothToDiffer(nextDay, hijriYear, hijriMonth, probes + 1)

findHijriMonthEnd_NeedsBothToDiffer(monthStart, hijriYear, hijriMonth) ==
    EndLoop_NeedsBothToDiffer(monthStart, hijriYear, hijriMonth, 0)

findHijriMonthEnd_ReturnsProbedDay(monthStart, hijriYear, hijriMonth) ==
    LET r == EndLoop(monthStart, hijriYear, hijriMonth, 0)
    IN  IF r.returned THEN [r EXCEPT !.date = r.date + 1] ELSE r

findHijriMonthEnd(monthStart, hijriYear, hijriMonth) ==
    EndLoop(monthStart, hijriYear, hijriMonth, 0)

----------------------------------------------------------------------------
(* Application state and persistence *)

InitialState ==
    [hijriYear |-> Null, hijriMonth |-> Null, usedPermissions |-> <<>>,
     settings |-> [language |-> "en", weekend |-> {5, 6}]]

NoItem == [kind |-> "none", text |-> <<>>]
Unparsable == [kind |-> "garbage", text |-> <<>>]

(* JSON.stringify leaves out the properties whose value is undefined *)
JSONstringify(obj) ==
    LET dropped == {k \in {"hijriYear", "hijriMonth"} : obj[k] = Undef}
    IN  [k \in (DOMAIN obj) \ dropped |-> obj[k]]

(* reading a property the parsed object lacks yields undefined *)
JSONparse(text) ==
    [k \in (DOMAIN text) \cup {"hijriYear", "hijriMonth"} |->
        IF k \in DOMAIN text THEN text[k] ELSE Undef]

saveState(st) == [kind |-> "json", text |-> JSONstringify(st)]

resetState(st, currentHijriYear, currentHijriMonth) ==
    LET fresh == [hijriYear |-> currentHijriYear,
                  hijriMonth |-> currentHijriMonth,
                  usedPermissions |-> <<>>,
                  settings |-> st.settings]
    IN  [state |-> fresh, storage |-> saveState(fresh)]

loadState_IgnoresMonth(st, stored, currentHijriYear, currentHijriMonth) ==
    IF stored.kind = "json"
    THEN [state |-> JSONparse(stored.text), storage |-> stored]
    ELSE resetState(st, currentHijriYear, currentHijriMonth)

loadState(st, stored, currentHijriYear, currentHijriMonth) ==
    IF stored.kind = "none"
    THEN resetState(st, currentHijriYear, currentHijriMonth)
    ELSE IF stored.kind = "garbage"
    THEN resetState(st, currentHijriYear, currentHijriMonth)
    ELSE LET parsed == JSONparse(stored.text)
         IN  IF parsed.hijriYear = currentHijriYear
                /\ parsed.hijriMonth = currentHijriMonth
             THEN [state |-> parsed, storage |-> stored]
             ELSE [state |-> [hijriYear |-> currentHijriYear,
                              hijriMonth |-> currentHijriMonth,
                              usedPermissions |-> <<>>,
                              settings |-> IF "settings" \in DOMAIN parsed
                                           THEN parsed.settings
                                           ELSE st.settings],
                   storage |-> stored]

----------------------------------------------------------------------------
(* Month statistics over the cached range *)

getHijriMonthLength(start, end) ==
    IF start = Null \/ end = Null THEN 30
    ELSE (end - start) + 1

RECURSIVE WorkdayLoop(_, _, _, _)
WorkdayLoop(current, end, weekendDays, workdayCount) ==
    IF current <= end
    THEN WorkdayLoop(current + 1, end, weekendDays,
                     IF getDay(current) \notin weekendDays
                     THEN workdayCount + 1 ELSE workdayCount)
    ELSE workdayCount

calculateWorkdays_SkipsLastDay(start, end, weekendDays) ==
    IF start = Null \/ end = Null
    THEN [workdays |-> 0, startWeekday |-> Null, endWeekday |-> Null]
    ELSE [workdays |-> WorkdayLoop(start, end - 1, weekendDays, 0),
          startWeekday |-> getDay(start),
          endWeekday |-> getDay(end)]

calculateWorkdays(start, end, weekendDays) ==
    IF start = Null \/ end = Null
    THEN [workdays |-> 0, startWeekday |-> Null, endWeekday |-> Null]
    ELSE [workdays |-> WorkdayLoop(start, end, weekendDays, 0),
          startWeekday |-> getDay(start),
          endWeekday |-> getDay(end)]

(* what the home screen shows: the fields of stats and the summary *)
renderHome(st, start, end) ==
    calculateWorkdays(start, end, st.settings.weekend) @@
    [month |-> st.hijriMonth, year |-> st.hijriYear,
     used |-> Len(st.usedPermissions),
     remaining |-> TOTAL_PERMISSIONS - Len(st.usedPermissions),
     language |-> st.settings.language]

----------------------------------------------------------------------------
(* src/script.js: its conversions.  A string is the sequence of its        *)
(* characters.                                                             *)

(* The numeric date pattern of the en-US locale for the Hijri calendars is *)
(* the engine's locale data: the CLDR data print month/day/year and the    *)
(* era ("8/1/1447 AH"); the comment of getHijriDate expects year/month/day *)
(* ("1447/8/1").                                                           *)
Patterns == {"M/d/y G", "y/M/d"}

DigitChars == <<"0", "1", "2", "3", "4", "5", "6", "7", "8", "9">>

(* a number as the characters the formatter prints *)
NumberChars(n) == [i \in DOMAIN Digits(n) |-> DigitChars[Digits(n)[i] + 1]]

(* formatter.format(date) of getHijriDate, lines 50-57 *)
enUSformat(p, m, ts, l, date) ==
    IF m = "unavailable" THEN <<>>
    ELSE LET h == OracleDate(m, ts, l, date)
         IN  IF p = "M/d/y G"
             THEN NumberChars(h.month) \o <<"/">> \o NumberChars(h.day) \o <<"/">>
                  \o NumberChars(h.year) \o <<" ", "A", "H">>
             ELSE NumberChars(h.year) \o <<"/">> \o NumberChars(h.month) \o <<"/">>
                  \o NumberChars(h.day)

(* String.prototype.split *)
RECURSIVE split(_, _)
split(s, separator) ==
    IF \A i \in DOMAIN s : s[i] # separator THEN <<s>>
    ELSE LET at == CHOOSE i \in DOMAIN s :
                       s[i] = separator /\ \A j \in 1..(i - 1) : s[j] # separator
         IN  <<SubSeq(s, 1, at - 1)>> \o split(SubSeq(s, at + 1, Len(s)), separator)

(* Number(s): the numeral's value, 0 for the empty string, NaN for a      *)
(* string that holds anything but digits                                   *)
Number(s) ==
    IF s = <<>> THEN 0
    ELSE IF \E i \in DOMAIN s : \A k \in DOMAIN DigitChars : DigitChars[k] # s[i]
    THEN NaN
    ELSE parseInt([i \in DOMAIN s |-> (CHOOSE k \in DOMAIN DigitChars :
                                           DigitChars[k] = s[i]) - 1])

(* a === b on numbers *)
StrictEq(a, b) == a # NaN /\ b # NaN /\ a = b

HijriMonthNames ==
    <<"Muharram", "Safar", "Rabi I", "Rabi II", "Jumada I", "Jumada II",
      "Rajab", "Shaban", "Ramadan", "Shawwal", "Dhu al-Qadah", "Dhu al-Hijjah">>

(* the ar-SA formatter with month: 'long' *)
monthNameFormatter(m, ts, l, date) ==
    IF m = "unavailable" THEN <<>>
    ELSE <<HijriMonthNames[OracleDate(m, ts, l, date).month]>>

(* the body of getHijriDate: the first three numbers of the split string *)
HijriOfFormatted(formatted, hijriMonthName) ==
    LET pieces == split(formatted, "/")
        At(i) == IF i \in DOMAIN pieces THEN Number(pieces[i]) ELSE Undef
    IN  [year |-> At(1), month |-> At(2), day |-> At(3), monthName |-> hijriMonthName]

(* the ar-SA formatter with month: 'long' and year: 'numeric' *)
FormattedHijriMonthAndYear(m, ts, l, date) ==
    IF m = "unavailable" THEN <<"?">>
    ELSE monthNameFormatter(m, ts, l, date)
         \o <<" ">> \o NumberChars(OracleDate(m, ts, l, date).year)

(* every conversion script.js can ask for, computed once *)
ScriptConversions ==
    [p \in Patterns |->
      [m \in Modes |->
        [ts \in TableStarts |->
          [l \in Oracles |->
            [d \in Days |->
               [hijri |-> HijriOfFormatted(enUSformat(p, m, ts, l, d),
                                           monthNameFormatter(m, ts, l, d)),
                monthAndYear |-> FormattedHijriMonthAndYear(m, ts, l, d)]]
              @@ [x \in {} |-> x]]
            @@ [x \in {} |-> x]]
          @@ [x \in {} |-> x]]
        @@ [x \in {} |-> x]]
      @@ [x \in {} |-> x]

(* reads the en-US string as year/month/day whatever the pattern is *)
getHijriDate(date) == ScriptConversions[pattern][mode][tableStart][lens][date].hijri

getFormattedHijriMonthAndYear(date) ==
    ScriptConversions[pattern][mode][tableStart][lens][date].monthAndYear

(* Date.toISOString() and new Date(isoString): the same instant back *)
toISOString(date) == [iso |-> date]
DateOfISO(timestamp) == timestamp.iso

----------------------------------------------------------------------------
(* src/script.js: the month range and the workdays.  `today` is the        *)
(* function's own reading of the clock.                                    *)

RECURSIVE RangeStartLoop(_, _, _, _)
RangeStartLoop(gregorianStartDate, year, month, iters) ==
    LET hijri == getHijriDate(gregorianStartDate)
    IN  IF StrictEq(hijri.year, year) /\ StrictEq(hijri.month, month)
        THEN IF StrictEq(hijri.day, 1)
             THEN [date |-> gregorianStartDate, iters |-> iters, returned |-> TRUE]
             ELSE IF iters >= MaxProbes
             THEN [date |-> gregorianStartDate, iters |-> iters, returned |-> FALSE]
             ELSE RangeStartLoop(gregorianStartDate - 1, year, month, iters + 1)
        ELSE [date |-> gregorianStartDate + 1, iters |-> iters, returned |-> TRUE]

RECURSIVE RangeEndLoop(_, _, _, _, _, _)
RangeEndLoop(tempDate, gregorianEndDate, workdays, year, month, iters) ==
    LET hijri == getHijriDate(tempDate)
    IN  IF StrictEq(hijri.year, year) /\ StrictEq(hijri.month, month)
        THEN IF iters >= MaxProbes
             THEN [gregorianEndDate |-> gregorianEndDate, workdays |-> workdays,
                   returned |-> FALSE]
             ELSE RangeEndLoop(tempDate + 1, tempDate,
                               IF getDay(tempDate) # 5 /\ getDay(tempDate) # 6
                               THEN workdays + 1 ELSE workdays,
                               year, month, iters + 1)
        ELSE [gregorianEndDate |-> gregorianEndDate, workdays |-> workdays,
              returned |-> TRUE]

(* the second loop, from the start the first loop found *)
RangeFrom(start, year, month) ==
    IF ~start.returned
    THEN [gregorianStartDate |-> start.date, gregorianEndDate |-> Null,
          workdays |-> 0, returned |-> FALSE]
    ELSE [gregorianStartDate |-> start.date] @@
         RangeEndLoop(start.date, start.date, 0, year, month, 0)

getHijriMonthGregorianRangeAndWorkdays(today) ==
    RangeFrom(RangeStartLoop(today, getHijriDate(today).year,
                             getHijriDate(today).month, 0),
              getHijriDate(today).year, getHijriDate(today).month)

----------------------------------------------------------------------------
(* src/script.js: its data and persistence.  The data are the three        *)
(* variables saveData stores.                                              *)

InitialData ==
    [permissionsUsed |-> 0, historyLog |-> <<>>, currentHijriMonthAndYear |-> <<>>]

(* the item saveData writes *)
saveData(data) == [kind |-> "json", text |-> data]

(* loadData: JSON.parse throws on an item that is no JSON; a stored 0, []  *)
(* or '' reads as the default it equals                                    *)
loadData(data, storedData) ==
    IF storedData.kind = "none" THEN [data |-> data, threw |-> FALSE]
    ELSE IF storedData.kind = "garbage" THEN [data |-> data, threw |-> TRUE]
    ELSE [data |-> [permissionsUsed |-> storedData.text.permissionsUsed,
                    historyLog |-> storedData.text.historyLog,
                    currentHijriMonthAndYear |->
                        storedData.text.currentHijriMonthAndYear],
          threw |-> FALSE]

(* never resets: keeps what was loaded whatever the month *)
checkAndResetMonth_NeverResets(data, item, today) ==
    [data |-> [data EXCEPT !.currentHijriMonthAndYear =
                               getFormattedHijriMonthAndYear(today)],
     item |-> item]

checkAndResetMonth(data, item, today) ==
    LET newHijriMonthAndYear == getFormattedHijriMonthAndYear(today)
    IN  IF newHijriMonthAndYear # data.currentHijriMonthAndYear
        THEN LET reset == [permissionsUsed |-> 0, historyLog |-> <<>>,
                           currentHijriMonthAndYear |-> newHijriMonthAndYear]
             IN  [data |-> reset, item |-> saveData(reset)]
        ELSE [data |-> data, item |-> item]

(* updateHomeUI: overwrites the month key, writes the home screen and      *)
(* enables or disables the two use buttons                                 *)
updateHomeUI(data, today) ==
    [currentHijriMonthAndYear |-> getFormattedHijriMonthAndYear(today),
     disabled |-> data.permissionsUsed >= MAX_PERMISSIONS,
     home |-> getHijriMonthGregorianRangeAndWorkdays(today) @@
              [month |-> getFormattedHijriMonthAndYear(today),
               used |-> data.permissionsUsed,
               remaining |-> MAX_PERMISSIONS - data.permissionsUsed]]

(* null in pendingPermissionType, which otherwise holds a type's name *)
NullType == "null"

(* what showConfirmationDialog leaves in pendingPermissionType *)
showConfirmationDialog(type) == type

(* what hideConfirmationDialog leaves in pendingPermissionType *)
hideConfirmationDialog_KeepsType == pendingPermissionType

hideConfirmationDialog == NullType

----------------------------------------------------------------------------
(* src/service-worker.js: its constants *)

CACHE_NAME == "work-permissions-cache-v1"

urlsToCache ==
    <<"/", "/index.html", "/style.css", "/script.js", "/manifest.json",
      "https://cdn.tailwindcss.com",
      "https://fonts.googleapis.com/css2?family=Inter:wght@400;500;600;700&display=swap",
      "https://fonts.gstatic.com/s/inter/v13/UcCO3FwrK3iLTeHuS_fvQtMwCp50KnMwMw.woff2">>

Urls == {urlsToCache[i] : i \in DOMAIN urlsToCache}

----------------------------------------------------------------------------
(* Initial states *)

RECURSIVE SumLens(_, _)
SumLens(l, n) == IF n = 0 THEN 0 ELSE l[n] + SumLens(l, n - 1)

(* the days the calendar table covers *)
TableDates == tableStart .. (tableStart + SumLens(lens, Len(lens)) - 1)

(* the first and the last day of each month of the table *)
BoundaryDates ==
    {d \in TableDates : OracleDate("ok", tableStart, lens, d).day = 1
                        \/ OracleDate("ok", tableStart, lens, d + 1).day = 1}

NoCall == [fn |-> "none", arg |-> Null, hijriYear |-> Null, hijriMonth |-> Null,
           weekendDays |-> {}, ret |-> Null, iters |-> 0, returned |-> FALSE,
           type |-> "none"]

Unloaded ==
    /\ state = InitialState
    /\ monthStartDate = Null
    /\ monthEndDate = Null
    /\ pc = "unloaded"
    /\ error = "none"
    /\ home = Null
    /\ rendered = FALSE
    /\ raced = FALSE
    /\ call = NoCall

(* script.js before its page loads: its variables at their literals *)
ScriptUnloaded ==
    /\ spc = "unloaded"
    /\ permissionsUsed = InitialData.permissionsUsed
    /\ historyLog = InitialData.historyLog
    /\ currentHijriMonthAndYear = InitialData.currentHijriMonthAndYear
    /\ pendingPermissionType = NullType
    /\ workPermissionsData = NoItem
    /\ disabled = FALSE

(* no service worker registered, nothing cached *)
NoCaches == [name \in {} |-> {}]

WorkerUnregistered ==
    /\ worker = "unregistered"
    /\ caches = NoCaches
    /\ network = {}
    /\ response = "none"

(* the application: any oracle, the page not loaded yet, a day near a month boundary *)
Init ==
    /\ mode \in Modes
    /\ lens \in Oracles
    /\ mode # "ok" => \A i \in DOMAIN lens : lens[i] = 30
    /\ tableStart = 3
    /\ now \in BoundaryDates
    /\ storage \in {NoItem, Unparsable}
    /\ budget = [ticks |-> MaxTicks, uses |-> MaxUses]
    /\ Unloaded
    /\ pattern = "M/d/y G"
    /\ ScriptUnloaded
    /\ WorkerUnregistered

(* the month resolution alone: a well-formed oracle, any weekday alignment, any day *)
InitResolve ==
    /\ mode = "ok"
    /\ lens \in Oracles
    /\ tableStart \in TableStarts
    /\ now \in TableDates
    /\ storage = NoItem
    /\ budget = [ticks |-> 1, uses |-> 0]
    /\ Unloaded
    /\ pattern = "M/d/y G"
    /\ ScriptUnloaded
    /\ WorkerUnregistered

----------------------------------------------------------------------------
(* The application's handlers *)

(* page load: the script's variables start from their literals, then init() *)
(* runs whole.  init reads the clock twice (todayHijri, then the argument   *)
(* of findHijriMonthStart); midnight may pass in between (late = 1).        *)
(* When a search does not return, init does not either: nothing after the   *)
(* call runs and the page stays hung.                                       *)
init ==
    \E late \in {0, 1} :
    \E todayHijri \in {toHijri(now)} :
    \E loaded \in {loadState(InitialState, storage, todayHijri.year, todayHijri.month)} :
    \E start \in {findHijriMonthStart(now + late)} :
    \E end \in {findHijriMonthEnd(start.date, todayHijri.year, todayHijri.month)} :
        /\ spc = "unloaded"
        /\ late <= budget.ticks
        /\ state' = loaded.state
        /\ storage' = loaded.storage
        /\ now' = now + late
        /\ raced' = (late = 1)
        /\ budget' = [budget EXCEPT !.ticks = @ - late]
        /\ error' = "none"
        /\ IF ~start.returned
           THEN /\ monthStartDate' = Null
                /\ monthEndDate' = Null
                /\ pc' = "hung"
                /\ home' = Null
                /\ rendered' = FALSE
           ELSE IF ~end.returned
           THEN /\ monthStartDate' = start.date
                /\ monthEndDate' = Null
                /\ pc' = "hung"
                /\ home' = Null
                /\ rendered' = FALSE
           ELSE /\ monthStartDate' = start.date
                /\ monthEndDate' = end.date
                /\ pc' = "ready"
                /\ home' = renderHome(loaded.state, start.date, end.date)
                /\ rendered' = TRUE
        /\ call' = [NoCall EXCEPT !.fn = "init", !.arg = now,
                                  !.hijriYear = todayHijri.year,
                                  !.hijriMonth = todayHijri.month,
                                  !.iters = end.iters,
                                  !.returned = start.returned /\ end.returned]
        /\ UNCHANGED <<pattern, scriptVars, workerVars, lens, mode, tableStart>>

(* midnight passes *)
Tick ==
    /\ budget.ticks > 0
    /\ now' = now + 1
    /\ budget' = [budget EXCEPT !.ticks = @ - 1]
    /\ rendered' = FALSE
    /\ call' = NoCall
    /\ UNCHANGED <<pattern, scriptVars, workerVars, lens, mode, tableStart, raced, storage, state, monthStartDate,
                   monthEndDate, pc, error, home>>

navigateTo ==
    /\ pc = "ready"
    /\ \E viewName \in {"home", "history", "settings"} :
          IF viewName = "home"
          THEN /\ home' = renderHome(state, monthStartDate, monthEndDate)
               /\ rendered' = TRUE
          ELSE /\ home' = home
               /\ rendered' = FALSE
    /\ call' = NoCall
    /\ UNCHANGED <<pattern, scriptVars, workerVars, lens, mode, tableStart, raced, now, storage, state, monthStartDate,
                   monthEndDate, pc, error, budget>>

(* refuses only once the quota is already exceeded *)
usePermission_OffByOne ==
    /\ pc = "ready"
    /\ \E type \in {"late", "early"}, confirm \in BOOLEAN :
          IF Len(state.usedPermissions) > TOTAL_PERMISSIONS
          THEN /\ rendered' = FALSE
               /\ UNCHANGED <<state, storage, home, budget>>
          ELSE IF ~confirm
          THEN /\ rendered' = FALSE
               /\ UNCHANGED <<state, storage, home, budget>>
          ELSE /\ budget.uses > 0
               /\ LET hijriNow == toHijri(now)
                      newEntry == [date |-> now, type |-> type,
                                   hijriDate |-> [year |-> hijriNow.year,
                                                  month |-> hijriNow.month,
                                                  day |-> hijriNow.day]]
                      pushed == [state EXCEPT !.usedPermissions = Append(@, newEntry)]
                  IN  /\ state' = pushed
                      /\ storage' = saveState(pushed)
                      /\ home' = renderHome(pushed, monthStartDate, monthEndDate)
               /\ budget' = [budget EXCEPT !.uses = @ - 1]
               /\ rendered' = TRUE
    /\ call' = NoCall
    /\ UNCHANGED <<pattern, scriptVars, workerVars, lens, mode, tableStart, raced, now, monthStartDate, monthEndDate,
                   pc, error>>

usePermission ==
    /\ pc = "ready"
    /\ \E type \in {"late", "early"}, confirm \in BOOLEAN :
          IF Len(state.usedPermissions) >= TOTAL_PERMISSIONS
          THEN /\ rendered' = FALSE
               /\ UNCHANGED <<state, storage, home, budget>>
          ELSE IF ~confirm
          THEN /\ rendered' = FALSE
               /\ UNCHANGED <<state, storage, home, budget>>
          ELSE /\ budget.uses > 0
               /\ LET hijriNow == toHijri(now)
                      newEntry == [date |-> now, type |-> type,
                                   hijriDate |-> [year |-> hijriNow.year,
                                                  month |-> hijriNow.month,
                                                  day |-> hijriNow.day]]
                      pushed == [state EXCEPT !.usedPermissions = Append(@, newEntry)]
                  IN  /\ state' = pushed
                      /\ storage' = saveState(pushed)
                      /\ home' = renderHome(pushed, monthStartDate, monthEndDate)
               /\ budget' = [budget EXCEPT !.uses = @ - 1]
               /\ rendered' = TRUE
    /\ call' = NoCall
    /\ UNCHANGED <<pattern, scriptVars, workerVars, lens, mode, tableStart, raced, now, monthStartDate, monthEndDate,
                   pc, error>>

languageChange ==
    /\ pc = "ready"
    /\ \E value \in {"en", "ar"} :
          LET changed == [state EXCEPT !.settings.language = value]
          IN  /\ state' = changed
              /\ storage' = saveState(changed)
              /\ home' = renderHome(changed, monthStartDate, monthEndDate)
    /\ rendered' = TRUE
    /\ call' = NoCall
    /\ UNCHANGED <<pattern, scriptVars, workerVars, lens, mode, tableStart, raced, now, monthStartDate, monthEndDate,
                   pc, error, budget>>

WeekendOptions == {{5, 6}, {4, 5}}

weekendChange ==
    /\ pc = "ready"
    /\ \E values \in WeekendOptions :
          LET changed == [state EXCEPT !.settings.weekend = values]
          IN  /\ state' = changed
              /\ storage' = saveState(changed)
              /\ home' = renderHome(changed, monthStartDate, monthEndDate)
    /\ rendered' = TRUE
    /\ call' = NoCall
    /\ UNCHANGED <<pattern, scriptVars, workerVars, lens, mode, tableStart, raced, now, monthStartDate, monthEndDate,
                   pc, error, budget>>

Next ==
    \/ init
    \/ Tick
    \/ navigateTo
    \/ usePermission
    \/ languageChange
    \/ weekendChange

Spec == Init /\ [][Next]_vars

----------------------------------------------------------------------------
(* The month resolution, one function application at a time, on the       *)
(* variables init() caches its results in                                  *)

WeekendConfigs == {{}, {5, 6}, {4, 5}, {0, 6}, {5}, {0, 1, 2, 3, 4, 5, 6}}

ApplyFindHijriMonthStart ==
    /\ pc = "unloaded"
    /\ \E r \in {findHijriMonthStart(now)} :
           /\ monthStartDate' = r.date
           /\ monthEndDate' = Null
           /\ call' = [NoCall EXCEPT !.fn = "findHijriMonthStart", !.arg = now,
                                     !.ret = r.date, !.iters = r.iters,
                                     !.returned = r.returned]
    /\ UNCHANGED <<pattern, scriptVars, workerVars, lens, mode, tableStart, raced, now, storage, state, pc, error,
                   home, rendered, budget>>

ApplyFindHijriMonthEnd ==
    /\ pc = "unloaded"
    /\ monthStartDate # Null
    /\ \E today \in {monthStartDate - 1, now} :
          \E h \in {toHijri(today)} :
          \E r \in {findHijriMonthEnd(monthStartDate, h.year, h.month)} :
              /\ monthEndDate' = r.date
              /\ call' = [NoCall EXCEPT !.fn = "findHijriMonthEnd",
                                        !.arg = monthStartDate,
                                        !.hijriYear = h.year,
                                        !.hijriMonth = h.month,
                                        !.ret = r.date, !.iters = r.iters,
                                        !.returned = r.returned]
    /\ UNCHANGED <<pattern, scriptVars, workerVars, lens, mode, tableStart, raced, now, storage, state, monthStartDate,
                   pc, error, home, rendered, budget>>

ApplyCalculateWorkdays ==
    /\ pc = "unloaded"
    /\ monthStartDate # Null
    /\ monthEndDate # Null
    /\ \E weekendDays \in WeekendConfigs :
          call' = [NoCall EXCEPT
                      !.fn = "calculateWorkdays",
                      !.weekendDays = weekendDays,
                      !.ret = calculateWorkdays(monthStartDate, monthEndDate,
                                                weekendDays).workdays,
                      !.returned = TRUE]
    /\ UNCHANGED <<pattern, scriptVars, workerVars, lens, mode, tableStart, raced, now, storage, state, monthStartDate,
                   monthEndDate, pc, error, home, rendered, budget>>

NextResolve ==
    \/ ApplyFindHijriMonthStart
    \/ ApplyFindHijriMonthEnd
    \/ ApplyCalculateWorkdays
    \/ init

SpecResolve == InitResolve /\ [][NextResolve]_vars

----------------------------------------------------------------------------
(* src/script.js: its handlers.  A page runs one of the two variants.      *)
(* A handler reads the clock once: the readings of one handler fall on the *)
(* same day.  The history list and the screen switching write the DOM      *)
(* only and are left out.                                                  *)

(* the three variables saveData stores *)
Data ==
    [permissionsUsed |-> permissionsUsed, historyLog |-> historyLog,
     currentHijriMonthAndYear |-> currentHijriMonthAndYear]

TypeOptions == {"Late Arrival", "Early Departure"}

(* the part of logPermission before its updateHomeUI() *)
logPermission(data, item, type, today) ==
    IF data.permissionsUsed < MAX_PERMISSIONS
    THEN LET logged == [data EXCEPT
                           !.permissionsUsed = @ + 1,
                           !.historyLog = Append(@, [type |-> type,
                                                     timestamp |-> toISOString(today)])]
         IN  [logged |-> TRUE, data |-> logged, item |-> saveData(logged)]
    ELSE [logged |-> FALSE, data |-> data, item |-> item]

(* page load: the script's variables start from their literals, the        *)
(* listeners are added, then initApp() runs whole.  When JSON.parse throws *)
(* nothing after loadData runs; when the range search does not return the  *)
(* page stays hung.                                                        *)
initApp ==
    /\ pc = "unloaded"
    /\ \E loaded \in {loadData(InitialData, workPermissionsData)} :
          IF loaded.threw
          THEN /\ permissionsUsed' = InitialData.permissionsUsed
               /\ historyLog' = InitialData.historyLog
               /\ currentHijriMonthAndYear' = InitialData.currentHijriMonthAndYear
               /\ workPermissionsData' = workPermissionsData
               /\ home' = Null
               /\ disabled' = FALSE
               /\ spc' = "ready"
               /\ call' = [NoCall EXCEPT !.fn = "initApp", !.arg = now]
          ELSE \E checked \in {checkAndResetMonth(loaded.data, workPermissionsData, now)} :
               \E ui \in {updateHomeUI(checked.data, now)} :
                   /\ permissionsUsed' = checked.data.permissionsUsed
                   /\ historyLog' = checked.data.historyLog
                   /\ currentHijriMonthAndYear' = ui.currentHijriMonthAndYear
                   /\ workPermissionsData' = checked.item
                   /\ home' = ui.home
                   /\ disabled' = (ui.home.returned /\ ui.disabled)
                   /\ spc' = IF ui.home.returned THEN "ready" ELSE "hung"
                   /\ call' = [NoCall EXCEPT !.fn = "initApp", !.arg = now,
                                             !.returned = ui.home.returned]
    /\ pendingPermissionType' = NullType
    /\ UNCHANGED <<pattern, lens, mode, tableStart, now, budget, pageVars, workerVars>>

(* a click on one of the two use buttons; a disabled button delivers none *)
useButtonClick ==
    /\ spc = "ready"
    /\ \E type \in TypeOptions :
          /\ pendingPermissionType' = IF disabled THEN pendingPermissionType
                                      ELSE showConfirmationDialog(type)
          /\ call' = [NoCall EXCEPT !.fn = "useButtonClick", !.type = type]
    /\ UNCHANGED <<pattern, lens, mode, tableStart, now, budget, pageVars, workerVars,
                   spc, permissionsUsed, historyLog, currentHijriMonthAndYear,
                   workPermissionsData, disabled, home>>

confirmButtonClick ==
    /\ spc = "ready"
    /\ IF pendingPermissionType = NullType
       THEN UNCHANGED <<spc, permissionsUsed, historyLog, currentHijriMonthAndYear,
                        pendingPermissionType, workPermissionsData, disabled, home,
                        budget>>
       ELSE \E r \in {logPermission(Data, workPermissionsData,
                                    pendingPermissionType, now)} :
              IF r.logged
              THEN \E ui \in {updateHomeUI(r.data, now)} :
                     /\ budget.uses > 0
                     /\ budget' = [budget EXCEPT !.uses = @ - 1]
                     /\ permissionsUsed' = r.data.permissionsUsed
                     /\ historyLog' = r.data.historyLog
                     /\ workPermissionsData' = r.item
                     /\ currentHijriMonthAndYear' = ui.currentHijriMonthAndYear
                     /\ home' = ui.home
                     /\ IF ui.home.returned
                        THEN /\ disabled' = ui.disabled
                             /\ pendingPermissionType' = hideConfirmationDialog
                             /\ spc' = "ready"
                        ELSE /\ disabled' = disabled
                             /\ pendingPermissionType' = pendingPermissionType
                             /\ spc' = "hung"
              ELSE /\ pendingPermissionType' = hideConfirmationDialog
                   /\ UNCHANGED <<spc, permissionsUsed, historyLog,
                                  currentHijriMonthAndYear, workPermissionsData,
                                  disabled, home, budget>>
    /\ call' = [NoCall EXCEPT !.fn = "confirmButtonClick"]
    /\ UNCHANGED <<pattern, lens, mode, tableStart, now, pageVars, workerVars>>

cancelButtonClick ==
    /\ spc = "ready"
    /\ pendingPermissionType' = hideConfirmationDialog
    /\ call' = [NoCall EXCEPT !.fn = "cancelButtonClick"]
    /\ UNCHANGED <<pattern, lens, mode, tableStart, now, budget, pageVars, workerVars,
                   spc, permissionsUsed, historyLog, currentHijriMonthAndYear,
                   workPermissionsData, disabled, home>>

(* the quota: one well-formed oracle, one day, empty storage, either       *)
(* variant, more confirmed uses explored than the quota allows             *)
InitQuota ==
    /\ mode = "ok"
    /\ lens = [i \in 1..NMonths |-> 30]
    /\ tableStart = 3
    /\ now = tableStart + 14
    /\ storage = NoItem
    /\ budget = [ticks |-> 0, uses |-> MaxQuotaUses]
    /\ Unloaded
    /\ pattern = "M/d/y G"
    /\ ScriptUnloaded
    /\ WorkerUnregistered

NextQuota ==
    \/ init
    \/ usePermission
    \/ languageChange
    \/ weekendChange
    \/ initApp
    \/ useButtonClick
    \/ confirmButtonClick
    \/ cancelButtonClick

SpecQuota == InitQuota /\ [][NextQuota]_vars

(* script.js: a well-formed oracle, either pattern, empty storage, the     *)
(* page not loaded yet, a day near a month boundary                        *)
InitScript ==
    /\ mode = "ok"
    /\ lens \in Oracles
    /\ tableStart = 3
    /\ now \in BoundaryDates
    /\ storage = NoItem
    /\ budget = [ticks |-> MaxTicks, uses |-> MaxLogs]
    /\ Unloaded
    /\ pattern \in Patterns
    /\ ScriptUnloaded
    /\ WorkerUnregistered

NextScript ==
    \/ initApp
    \/ Tick
    \/ useButtonClick
    \/ confirmButtonClick
    \/ cancelButtonClick

SpecScript == InitScript /\ [][NextScript]_vars

(* script.js's month search alone, on the variable updateHomeUI shows its  *)
(* result in: a well-formed oracle, either pattern, any weekday alignment, *)
(* any day                                                                 *)
InitRange ==
    /\ mode = "ok"
    /\ lens \in Oracles
    /\ tableStart \in TableStarts
    /\ now \in TableDates
    /\ storage = NoItem
    /\ budget = [ticks |-> 0, uses |-> 0]
    /\ Unloaded
    /\ pattern \in Patterns
    /\ ScriptUnloaded
    /\ WorkerUnregistered

ApplyGetHijriMonthGregorianRangeAndWorkdays ==
    /\ pc = "unloaded"
    /\ spc = "unloaded"
    /\ \E range \in {getHijriMonthGregorianRangeAndWorkdays(now)} :
          /\ home' = range
          /\ call' = [NoCall EXCEPT
                         !.fn = "getHijriMonthGregorianRangeAndWorkdays",
                         !.arg = now, !.returned = range.returned]
    /\ UNCHANGED <<pattern, lens, mode, tableStart, now, budget, pageVars,
                   scriptVars, workerVars>>

NextRange == ApplyGetHijriMonthGregorianRangeAndWorkdays

SpecRange == InitRange /\ [][NextRange]_vars

----------------------------------------------------------------------------
(* src/service-worker.js: its handlers.  A promise is modelled by how it   *)
(* settles.                                                                *)

(* promise.then(onFulfilled), the handler returning: settles as promise *)
Then(settled) == settled

(* promise.catch(onRejected), the handler returning: always fulfils *)
Catch(settled) == IF settled = "rejected" THEN "fulfilled" ELSE settled

(* caches.open(name): the cache of that name, created when there is none *)
open(storage_, name) ==
    IF name \in DOMAIN storage_ THEN storage_
    ELSE storage_ @@ [n \in {name} |-> {}]

(* cache.addAll(urls): fulfils when every request is answered, and stores  *)
(* all the responses; rejects when one is not, and stores none             *)
addAll(urls, reachable) ==
    IF \A i \in DOMAIN urls : urls[i] \in reachable THEN "fulfilled" ELSE "rejected"

(* a cache of an earlier version of the worker *)
OldCaches == [name \in {"work-permissions-cache-v0"} |-> {"/", "/index.html"}]

(* the worker's script has been fetched and parsed: any part of the URLs   *)
(* can be retrieved, an earlier version may have left a cache              *)
InitInstall ==
    /\ mode = "ok"
    /\ lens = [i \in 1..NMonths |-> 30]
    /\ tableStart = 3
    /\ now = tableStart
    /\ storage = NoItem
    /\ budget = [ticks |-> 0, uses |-> 0]
    /\ Unloaded
    /\ pattern = "M/d/y G"
    /\ ScriptUnloaded
    /\ worker = "parsed"
    /\ caches \in {NoCaches, OldCaches}
    /\ network \in SUBSET Urls
    /\ response = "none"

(* the install event: the promise given to event.waitUntil decides whether *)
(* the worker becomes installed                                            *)
install ==
    /\ worker = "parsed"
    /\ \E added \in {addAll(urlsToCache, network)} :
          /\ caches' = IF added = "fulfilled"
                       THEN [open(caches, CACHE_NAME) EXCEPT ![CACHE_NAME] = @ \cup Urls]
                       ELSE open(caches, CACHE_NAME)
          /\ worker' = IF Catch(Then(added)) = "fulfilled" THEN "installed"
                       ELSE "redundant"
    /\ UNCHANGED <<network, response, pattern, lens, mode, tableStart, now, budget,
                   call, home, pageVars, scriptVars>>

(* the activate event: deletes the caches that are not in the whitelist *)
activate ==
    /\ worker = "installed"
    /\ caches' = [name \in (DOMAIN caches) \cap {CACHE_NAME} |-> caches[name]]
    /\ worker' = "activated"
    /\ UNCHANGED <<network, response, pattern, lens, mode, tableStart, now, budget,
                   call, home, pageVars, scriptVars>>

(* a fetch event: the cached response, else the network's, else none *)
fetch ==
    /\ worker = "activated"
    /\ \E request \in Urls \cup {"/favicon.ico"} :
          response' = IF \E name \in DOMAIN caches : request \in caches[name]
                      THEN "cached"
                      ELSE IF request \in network THEN "network" ELSE "undefined"
    /\ UNCHANGED <<worker, caches, network, pattern, lens, mode, tableStart, now,
                   budget, call, home, pageVars, scriptVars>>

NextInstall ==
    \/ install
    \/ activate
    \/ fetch

SpecInstall == InitInstall /\ [][NextInstall]_vars

----------------------------------------------------------------------------
(* Claims about the month resolution, checked under SpecResolve *)

(* the table's i-th month: its first day and its Hijri month and year *)
TableMonthStart(i) == tableStart + SumLens(lens, i - 1)
TableMonthNumber(i) == ((FirstMonth - 1 + (i - 1)) % 12) + 1
TableMonthYear(i) == FirstYear + ((FirstMonth - 1 + (i - 1)) \div 12)

SameHijriMonth(d, e) ==
    /\ toHijri(d).year = toHijri(e).year
    /\ toHijri(d).month = toHijri(e).month

(* C1: findHijriMonthStart(r) returns the latest date s <= r whose Hijri   *)
(* day is 1; s is in the Hijri month and year of r; when r is itself a     *)
(* day 1 it returns r after zero backward steps.                           *)
C1_StartIsLatestDayOne ==
    call.fn = "findHijriMonthStart" =>
        /\ call.returned
        /\ call.ret <= call.arg
        /\ toHijri(call.ret).day = 1
        /\ \A d \in (call.ret + 1)..call.arg : toHijri(d).day # 1
        /\ SameHijriMonth(call.ret, call.arg)
        /\ toHijri(call.arg).day = 1 => (call.ret = call.arg /\ call.iters = 0)

C1_Witness ==
    /\ call.fn = "findHijriMonthStart"
    /\ toHijri(call.arg).day = 30
    /\ toHijri(call.arg).month = 1
    /\ call.ret = call.arg - 29
    /\ call.iters = 29

(* C2: for a month start s of Hijri (y, m), findHijriMonthEnd(s, y, m)     *)
(* returns the last date e >= s of that month: every day of [s, e] is in   *)
(* (y, m) and the day after e is not.                                      *)
C2_EndIsLastDayOfMonth ==
    (/\ call.fn = "findHijriMonthEnd"
     /\ toHijri(call.arg) = [year |-> call.hijriYear, month |-> call.hijriMonth,
                             day |-> 1]) =>
        /\ call.returned
        /\ call.ret >= call.arg
        /\ \A d \in call.arg..call.ret :
              /\ toHijri(d).year = call.hijriYear
              /\ toHijri(d).month = call.hijriMonth
        /\ \/ toHijri(call.ret + 1).year # call.hijriYear
           \/ toHijri(call.ret + 1).month # call.hijriMonth

C2_Witness ==
    /\ call.fn = "findHijriMonthEnd"
    /\ toHijri(call.arg) = [year |-> call.hijriYear, month |-> call.hijriMonth,
                            day |-> 1]
    /\ call.ret = call.arg + 28
    /\ toHijri(call.ret + 1).day = 1

(* C3: init on a day today = G + k of a table month that starts on G, has  *)
(* L days and is Hijri month M (both of init's clock readings giving       *)
(* today) caches start = G and end = G + L - 1 and sets the state's month  *)
(* to M.                                                                   *)
C3_InitResolvesCurrentMonth ==
    (call.fn = "init" /\ ~raced) =>
        \A i \in DOMAIN lens :
            call.arg \in TableMonthStart(i)..(TableMonthStart(i) + lens[i] - 1) =>
                /\ pc = "ready"
                /\ monthStartDate = TableMonthStart(i)
                /\ monthEndDate = TableMonthStart(i) + lens[i] - 1
                /\ state.hijriMonth = TableMonthNumber(i)
                /\ state.hijriYear = TableMonthYear(i)

C3_Witness ==
    /\ call.fn = "init"
    /\ ~raced
    /\ \E i \in DOMAIN lens :
          /\ lens[i] = 29
          /\ call.arg = TableMonthStart(i) + 15
          /\ monthStartDate = TableMonthStart(i)
          /\ monthEndDate = TableMonthStart(i) + 28
          /\ state.hijriMonth = TableMonthNumber(i)

(* C4: calculateWorkdays over the cached range with weekend set W returns  *)
(* the number of days d, start <= d <= end, whose weekday is not in W: the *)
(* inclusive day count for W = {}, and 22 for W = {5, 6} over a 30-day     *)
(* month that starts on a Sunday.                                          *)
C4_WorkdaysCountsNonWeekendDays ==
    call.fn = "calculateWorkdays" =>
        /\ call.ret = Cardinality({d \in monthStartDate..monthEndDate :
                                      getDay(d) \notin call.weekendDays})
        /\ call.weekendDays = {} => call.ret = monthEndDate - monthStartDate + 1
        /\ (/\ call.weekendDays = {5, 6}
            /\ getDay(monthStartDate) = 0
            /\ monthEndDate - monthStartDate + 1 = 30) => call.ret = 22

C4_Witness ==
    /\ call.fn = "calculateWorkdays"
    /\ call.weekendDays = {5, 6}
    /\ getDay(monthStartDate) = 0
    /\ monthEndDate - monthStartDate + 1 = 30
    /\ call.ret = 22

(* C5: findHijriMonthStart gives the same date for every date of the Hijri *)
(* month that begins at findHijriMonthStart(r).                            *)
C5_StartIsIdempotentOverMonth ==
    call.fn = "findHijriMonthStart" =>
        \A d \in (call.ret - 30)..(call.ret + 30) :
            SameHijriMonth(d, call.ret) =>
                findHijriMonthStart(d).date = call.ret

C5_Witness ==
    /\ call.fn = "findHijriMonthStart"
    /\ call.ret < call.arg
    /\ SameHijriMonth(call.ret + 29, call.ret)
    /\ findHijriMonthStart(call.ret + 29).date = call.ret

(* C6: under an oracle whose months have 29 or 30 days, findHijriMonthStart *)
(* returns after at most 30 loop iterations and findHijriMonthEnd, from a   *)
(* month start, after at most 30 probes.                                    *)
C6_SearchesEndWithin30 ==
    /\ call.fn = "findHijriMonthStart" => (call.returned /\ call.iters <= 30)
    /\ (call.fn = "findHijriMonthEnd" /\ toHijri(call.arg).day = 1) =>
          (call.returned /\ call.iters <= 30)

C6_Witness ==
    /\ call.fn = "findHijriMonthEnd"
    /\ toHijri(call.arg).day = 1
    /\ call.returned
    /\ call.iters = 30

----------------------------------------------------------------------------
(* Claims about the application, checked under Spec *)

(* the cached range is the whole Hijri month that holds the day d *)
RangeIsMonthOf(d) ==
    /\ monthStartDate # Null
    /\ monthEndDate # Null
    /\ monthStartDate <= d
    /\ d <= monthEndDate
    /\ toHijri(monthStartDate).day = 1
    /\ toHijri(monthEndDate + 1).day = 1
    /\ monthEndDate - monthStartDate + 1 \in {29, 30}

(* C7: when the oracle never leaves the month init starts in,              *)
(* findHijriMonthEnd (and with it init) stops within 35 probes and fails   *)
(* with BoundaryNotFound.                                                  *)
C7_StuckOracleFailsWithinCap ==
    (/\ mode = "stuck"
     /\ call.fn = "init"
     /\ call.arg >= TableMonthStart(Len(lens))) =>
        /\ call.iters <= 35
        /\ error = "BoundaryNotFound"

(* C8: when the oracle yields no day, month or year, init fails with       *)
(* ConversionUnavailable and leaves no start date, no end date, no month   *)
(* length and no workday count behind, neither partial nor defaulted.      *)
C8_UnavailableOracleSurfacesFailure ==
    (mode = "unavailable" /\ call.fn = "init") =>
        /\ error = "ConversionUnavailable"
        /\ monthStartDate = Null
        /\ monthEndDate = Null
        /\ home = Null
        /\ getHijriMonthLength(monthStartDate, monthEndDate) \notin {29, 30}

(* C9: loadState(y, m), as init calls it: when the stored item parses and  *)
(* its (hijriYear, hijriMonth) is (y, m) the state becomes the stored      *)
(* state, usage log included; otherwise the state has hijriYear = y,       *)
(* hijriMonth = m and an empty usedPermissions, with the stored settings   *)
(* when the item parsed.                                                   *)
C9_LoadStateKeepsOrResets ==
    [][call'.fn = "init" =>
          IF /\ storage.kind = "json"
             /\ JSONparse(storage.text).hijriYear = call'.hijriYear
             /\ JSONparse(storage.text).hijriMonth = call'.hijriMonth
          THEN state' = JSONparse(storage.text)
          ELSE /\ state'.hijriYear = call'.hijriYear
               /\ state'.hijriMonth = call'.hijriMonth
               /\ state'.usedPermissions = <<>>
               /\ storage.kind = "json" =>
                     state'.settings = JSONparse(storage.text).settings]_vars

C9_Witness ==
    /\ call.fn = "init"
    /\ mode = "ok"
    /\ storage.kind = "json"
    /\ storage.text.hijriMonth # state.hijriMonth
    /\ storage.text.usedPermissions # <<>>
    /\ storage.text.settings.weekend = {4, 5}
    /\ state.usedPermissions = <<>>
    /\ state.settings = storage.text.settings
    /\ state.hijriMonth = toHijri(now).month

(* C10: whenever the home screen is rendered (after an init that read one  *)
(* and the same day from the clock), the cached range and the state's      *)
(* (hijriYear, hijriMonth) are those of the Hijri month that holds the     *)
(* current date.                                                           *)
C10_RenderedMonthIsCurrent ==
    (mode = "ok" /\ pc = "ready" /\ rendered /\ ~raced) =>
        /\ RangeIsMonthOf(now)
        /\ state.hijriYear = toHijri(now).year
        /\ state.hijriMonth = toHijri(now).month

(* C16: in every state reachable after init (one that read one and the    *)
(* same day from the clock) through day rollovers, uses and reloads, every *)
(* entry of state.usedPermissions carries the state's Hijri year and       *)
(* month.                                                                  *)
C16_EntriesBelongToStateMonth ==
    (pc = "ready" /\ ~raced) =>
        \A i \in DOMAIN state.usedPermissions :
            /\ state.usedPermissions[i].hijriDate.year = state.hijriYear
            /\ state.usedPermissions[i].hijriDate.month = state.hijriMonth

----------------------------------------------------------------------------
(* Claims about the quota, checked under SpecQuota *)

(* in memory and in the stored item, no more than 10 used permissions *)
QuotaRespected ==
    /\ Len(state.usedPermissions) <= 10
    /\ storage.kind = "json" => Len(storage.text.usedPermissions) <= 10
    /\ permissionsUsed <= 10
    /\ Len(historyLog) <= 10
    /\ workPermissionsData.kind = "json" =>
          /\ workPermissionsData.text.permissionsUsed <= 10
          /\ Len(workPermissionsData.text.historyLog) <= 10

(* from a state with 10 used permissions no step, an attempt to use one   *)
(* included, changes the count or the log, in memory or in the stored item *)
QuotaStep ==
    /\ Len(state.usedPermissions) = 10 =>
          /\ state'.usedPermissions = state.usedPermissions
          /\ storage'.text.usedPermissions = storage.text.usedPermissions
    /\ permissionsUsed = 10 =>
          /\ permissionsUsed' = permissionsUsed
          /\ historyLog' = historyLog
          /\ workPermissionsData'.text.permissionsUsed = permissionsUsed
          /\ workPermissionsData'.text.historyLog = historyLog

(* C11: in both variants, from empty storage, through use clicks,          *)
(* confirmations, cancellations, settings changes and reloads, the number  *)
(* of permissions recorded as used never exceeds 10, and an attempt to use *)
(* a permission when 10 are used leaves the count and the log unchanged,   *)
(* in memory and in the stored item.                                       *)
C11_QuotaNeverExceeded == []QuotaRespected /\ [][QuotaStep]_vars

(* part_000 has just refused a use at 10 (only a refused or cancelled use  *)
(* leaves the home screen unrendered here)                                 *)
C11_Witness ==
    /\ pc = "ready"
    /\ Len(state.usedPermissions) = 10
    /\ Len(storage.text.usedPermissions) = 10
    /\ ~rendered
    /\ call = NoCall
    /\ home.remaining = 0

----------------------------------------------------------------------------
(* Claims about script.js, checked under SpecScript *)

(* C12: whenever initApp has just completed, permissionsUsed and           *)
(* historyLog count only permissions that were logged in the Hijri month   *)
(* of the current date: a new Hijri month resets them.                     *)
C12_InitAppCountsCurrentMonthOnly ==
    (call.fn = "initApp" /\ call.returned) =>
        /\ \A i \in DOMAIN historyLog :
              SameHijriMonth(DateOfISO(historyLog[i].timestamp), now)
        /\ permissionsUsed =
              Cardinality({i \in DOMAIN historyLog :
                              SameHijriMonth(DateOfISO(historyLog[i].timestamp), now)})

(* a step logs a permission *)
Logs == Len(historyLog') > Len(historyLog) \/ permissionsUsed' > permissionsUsed

(* a permission type is pending exactly from a delivered use click to the  *)
(* next confirm click, cancel click or page load, and it is the type of    *)
(* that use click                                                          *)
PendingFollowsClicks ==
    /\ (call'.fn = "useButtonClick" /\ ~disabled) =>
          (pendingPermissionType' = call'.type /\ call'.type \in TypeOptions)
    /\ call'.fn \in {"confirmButtonClick", "cancelButtonClick", "initApp"} =>
          pendingPermissionType' = NullType
    /\ call'.fn \notin {"useButtonClick", "confirmButtonClick",
                        "cancelButtonClick", "initApp"} =>
          pendingPermissionType' = pendingPermissionType

(* C14: a permission is logged only by a confirm click made while a type   *)
(* is pending (after a use click not yet followed by a confirm or a        *)
(* cancel); the click logs one permission, of the pending type, which is   *)
(* the type of the most recent use click, and leaves none pending, so a    *)
(* further confirm click logs nothing; a cancel logs none.                 *)
C14_LoggedOnlyByPendingConfirm ==
    [][/\ PendingFollowsClicks
       /\ Logs =>
             /\ call'.fn = "confirmButtonClick"
             /\ pendingPermissionType \in TypeOptions
             /\ historyLog' = Append(historyLog,
                                     [type |-> pendingPermissionType,
                                      timestamp |-> toISOString(now)])
             /\ permissionsUsed' = permissionsUsed + 1
             /\ pendingPermissionType' = NullType
       /\ (call'.fn = "confirmButtonClick" /\ pendingPermissionType = NullType) =>
             ~Logs
       /\ call'.fn = "cancelButtonClick" =>
             /\ ~Logs
             /\ workPermissionsData' = workPermissionsData]_vars

(* a second use click changed the pending type and the confirm logged it *)
C14_Witness ==
    /\ call.fn = "confirmButtonClick"
    /\ pendingPermissionType = NullType
    /\ permissionsUsed = 2
    /\ Len(historyLog) = 2
    /\ historyLog[1].type = "Late Arrival"
    /\ historyLog[2].type = "Early Departure"
    /\ workPermissionsData.text.historyLog = historyLog

----------------------------------------------------------------------------
(* Claims about script.js's month search, checked under SpecRange *)

(* C13: for every today and every oracle whose months are 29 or 30         *)
(* consecutive days numbered from 1, getHijriMonthGregorianRangeAndWorkdays *)
(* yields the start day and the end day of findHijriMonthStart followed by *)
(* findHijriMonthEnd, and the workday count of calculateWorkdays with      *)
(* weekend {5, 6}.                                                         *)
C13_RangeSearchesAgree ==
    call.fn = "getHijriMonthGregorianRangeAndWorkdays" =>
        /\ home.returned
        /\ home.gregorianStartDate = findHijriMonthStart(call.arg).date
        /\ home.gregorianEndDate =
              findHijriMonthEnd(findHijriMonthStart(call.arg).date,
                                toHijri(call.arg).year,
                                toHijri(call.arg).month).date
        /\ home.workdays =
              calculateWorkdays(findHijriMonthStart(call.arg).date,
                                findHijriMonthEnd(findHijriMonthStart(call.arg).date,
                                                  toHijri(call.arg).year,
                                                  toHijri(call.arg).month).date,
                                {5, 6}).workdays

(* the same, for an engine whose en-US pattern is year/month/day *)
C13_AgreeUnderYearMonthDay == pattern = "y/M/d" => C13_RangeSearchesAgree

----------------------------------------------------------------------------
(* Claims about the service worker, checked under SpecInstall *)

(* C15: whenever the install step has completed successfully (the promise  *)
(* given to event.waitUntil fulfilled), every URL of urlsToCache is stored *)
(* in the cache named 'work-permissions-cache-v1'.                         *)
C15_InstalledMeansAllCached ==
    worker = "installed" =>
        /\ "work-permissions-cache-v1" \in DOMAIN caches
        /\ \A i \in DOMAIN urlsToCache :
              urlsToCache[i] \in caches["work-permissions-cache-v1"]

====
